---------------------------- MODULE Spec2Model ----------------------------
(***************************************************************************)
(* Model of functions/AuthUtils.js: the OIDC login, callback and logout    *)
(* handlers that bridge a CrossID id_token to the Netlify nf_jwt cookie.   *)
(*                                                                         *)
(* JavaScript strings are sequences of UTF-16 code units (integers),       *)
(* Buffers are sequences of bytes (0..255).  The value undefined is the    *)
(* one-element sequence <<-1>>, which is no string.                        *)
(***************************************************************************)
EXTENDS Integers, Sequences, FiniteSets, TLC

Undefined == <<-1>>

IsString(x) == x # Undefined

\* JavaScript truthiness of a string or undefined.
Truthy(x) == x # Undefined /\ x # <<>>

\* ------------------------------------------------------------------------
\* String literals used by the program and its collaborators.
\* ------------------------------------------------------------------------
S_slash == <<47>>                                       \* "/"
S_route == <<114, 111, 117, 116, 101>>                  \* "route"
S_nonce == <<110, 111, 110, 99, 101>>                   \* "nonce"
S_state == <<115, 116, 97, 116, 101>>                   \* "state"
S_null == <<110, 117, 108, 108>>                        \* "null"
S_undefined == <<117, 110, 100, 101, 102, 105, 110, 101, 100>>  \* "undefined"

\* ToString of a value that is a string or undefined.
StringOf(x) == IF x = Undefined THEN S_undefined ELSE x

\* ------------------------------------------------------------------------
\* Hex digits, used by \uXXXX escapes and by percent-encoding.
\* ------------------------------------------------------------------------
HexUpper(d) == IF d < 10 THEN 48 + d ELSE 65 + (d - 10)

HexLower(d) == IF d < 10 THEN 48 + d ELSE 97 + (d - 10)

HexVal(c) ==
    IF c >= 48 /\ c <= 57 THEN c - 48
    ELSE IF c >= 65 /\ c <= 70 THEN c - 55
    ELSE IF c >= 97 /\ c <= 102 THEN c - 87
    ELSE -1

\* ------------------------------------------------------------------------
\* Buffer.from(str) / buf.toString('utf8'): UTF-8 of the basic plane.
\* ------------------------------------------------------------------------
IsSurrogate(c) == c >= 55296 /\ c <= 57343

\* Units i and i + 1 of s are a surrogate pair, one character past U+FFFF.
PairAt(s, i) ==
    /\ i < Len(s)
    /\ s[i] >= 55296 /\ s[i] <= 56319
    /\ s[i + 1] >= 56320 /\ s[i + 1] <= 57343

Utf8OfUnit(c) ==
    IF c < 128 THEN <<c>>
    ELSE IF c < 2048 THEN <<192 + (c \div 64), 128 + (c % 64)>>
    ELSE IF IsSurrogate(c) THEN <<239, 191, 189>>      \* lone surrogate: U+FFFD
    ELSE <<224 + (c \div 4096), 128 + ((c \div 64) % 64), 128 + (c % 64)>>

Utf8OfPair(cp) ==
    <<240 + (cp \div 262144), 128 + ((cp \div 4096) % 64),
      128 + ((cp \div 64) % 64), 128 + (cp % 64)>>

\* The bytes unit i of s adds: four for the first unit of a pair, none for
\* its second.
Utf8EncodeAt(s, i) ==
    IF PairAt(s, i)
        THEN Utf8OfPair(65536 + (s[i] - 55296) * 1024 + (s[i + 1] - 56320))
    ELSE IF i > 1 /\ PairAt(s, i - 1) THEN <<>>
    ELSE Utf8OfUnit(s[i])

\* Recursions over a string split the range lo..hi in halves.
RECURSIVE Utf8EncodeRange(_, _, _)
Utf8EncodeRange(s, lo, hi) ==
    IF lo > hi THEN <<>>
    ELSE IF lo = hi THEN Utf8EncodeAt(s, lo)
    ELSE Utf8EncodeRange(s, lo, (lo + hi) \div 2)
             \o Utf8EncodeRange(s, (lo + hi) \div 2 + 1, hi)

Utf8Encode(s) == Utf8EncodeRange(s, 1, Len(s))

IsCont(b) == b >= 128 /\ b <= 191

\* The bytes from position i of b start a two-byte or three-byte character.
Utf8Lead2(b, i) ==
    b[i] >= 194 /\ b[i] <= 223 /\ i + 1 <= Len(b) /\ IsCont(b[i + 1])

Utf8Value3(b, i) == (b[i] - 224) * 4096 + (b[i + 1] - 128) * 64 + (b[i + 2] - 128)

Utf8Lead3(b, i) ==
    /\ b[i] >= 224 /\ b[i] <= 239 /\ i + 2 <= Len(b)
    /\ IsCont(b[i + 1]) /\ IsCont(b[i + 2])
    /\ Utf8Value3(b, i) >= 2048 /\ ~IsSurrogate(Utf8Value3(b, i))

Utf8Value4(b, i) ==
    (b[i] - 240) * 262144 + (b[i + 1] - 128) * 4096
        + (b[i + 2] - 128) * 64 + (b[i + 3] - 128)

Utf8Lead4(b, i) ==
    /\ b[i] >= 240 /\ b[i] <= 244 /\ i + 3 <= Len(b)
    /\ IsCont(b[i + 1]) /\ IsCont(b[i + 2]) /\ IsCont(b[i + 3])
    /\ Utf8Value4(b, i) >= 65536 /\ Utf8Value4(b, i) <= 1114111

\* What the decoder yields at byte i: the character starting there, nothing
\* for a continuation byte of a character, U+FFFD for an invalid byte.
Utf8DecodeAt(b, i) ==
    IF b[i] < 128 THEN <<b[i]>>
    ELSE IF Utf8Lead2(b, i) THEN <<(b[i] - 192) * 64 + (b[i + 1] - 128)>>
    ELSE IF Utf8Lead3(b, i) THEN <<Utf8Value3(b, i)>>
    ELSE IF Utf8Lead4(b, i)
        THEN <<55296 + ((Utf8Value4(b, i) - 65536) \div 1024),
               56320 + ((Utf8Value4(b, i) - 65536) % 1024)>>
    ELSE IF IsCont(b[i])
            /\ \/ i > 1 /\ (Utf8Lead2(b, i - 1) \/ Utf8Lead3(b, i - 1)
                                \/ Utf8Lead4(b, i - 1))
               \/ i > 2 /\ (Utf8Lead3(b, i - 2) \/ Utf8Lead4(b, i - 2))
               \/ i > 3 /\ Utf8Lead4(b, i - 3)
        THEN <<>>
    ELSE <<65533>>

RECURSIVE Utf8DecodeRange(_, _, _)
Utf8DecodeRange(b, lo, hi) ==
    IF lo > hi THEN <<>>
    ELSE IF lo = hi THEN Utf8DecodeAt(b, lo)
    ELSE Utf8DecodeRange(b, lo, (lo + hi) \div 2)
             \o Utf8DecodeRange(b, (lo + hi) \div 2 + 1, hi)

Utf8Decode(b) == Utf8DecodeRange(b, 1, Len(b))

\* ------------------------------------------------------------------------
\* base64: buf.toString('base64') and Buffer.from(str, 'base64').
\* ------------------------------------------------------------------------
B64Char(i) ==
    IF i < 26 THEN 65 + i
    ELSE IF i < 52 THEN 97 + (i - 26)
    ELSE IF i < 62 THEN 48 + (i - 52)
    ELSE IF i = 62 THEN 43 ELSE 47

B64Index(c) ==
    IF c >= 65 /\ c <= 90 THEN c - 65
    ELSE IF c >= 97 /\ c <= 122 THEN c - 97 + 26
    ELSE IF c >= 48 /\ c <= 57 THEN c - 48 + 52
    ELSE IF c = 43 \/ c = 45 THEN 62
    ELSE IF c = 47 \/ c = 95 THEN 63
    ELSE -1

\* The four characters of the g-th group of three bytes, padded at the end.
Base64Group(b, g) ==
    LET i == 3 * g - 2 IN
    IF i = Len(b) THEN
        <<B64Char(b[i] \div 4), B64Char((b[i] % 4) * 16), 61, 61>>
    ELSE IF i + 1 = Len(b) THEN
        <<B64Char(b[i] \div 4), B64Char((b[i] % 4) * 16 + (b[i + 1] \div 16)),
          B64Char((b[i + 1] % 16) * 4), 61>>
    ELSE
        <<B64Char(b[i] \div 4), B64Char((b[i] % 4) * 16 + (b[i + 1] \div 16)),
          B64Char((b[i + 1] % 16) * 4 + (b[i + 2] \div 64)), B64Char(b[i + 2] % 64)>>

RECURSIVE Base64EncodeRange(_, _, _)
Base64EncodeRange(b, lo, hi) ==
    IF lo > hi THEN <<>>
    ELSE IF lo = hi THEN Base64Group(b, lo)
    ELSE Base64EncodeRange(b, lo, (lo + hi) \div 2)
             \o Base64EncodeRange(b, (lo + hi) \div 2 + 1, hi)

Base64Encode(b) == Base64EncodeRange(b, 1, (Len(b) + 2) \div 3)

\* The sextets of the characters before the first '=', characters outside
\* both alphabets skipped, as Node's decoder does.
B64Sextets(s) ==
    LET pads == {i \in 1..Len(s) : s[i] = 61}
        stop == IF pads = {} THEN Len(s)
                ELSE (CHOOSE i \in pads : \A j \in pads : i <= j) - 1
        head == SubSeq(s, 1, stop)
        idx == [i \in 1..Len(head) |-> B64Index(head[i])]
    IN  SelectSeq(idx, LAMBDA x : x >= 0)

\* The bytes of the g-th group of four sextets; a last group of two or
\* three sextets gives one or two bytes, of one sextet none.
B64GroupBytes(x, g) ==
    LET i == 4 * g - 3 IN
    IF i = Len(x) THEN <<>>
    ELSE IF i + 1 = Len(x) THEN <<x[i] * 4 + (x[i + 1] \div 16)>>
    ELSE IF i + 2 = Len(x) THEN
        <<x[i] * 4 + (x[i + 1] \div 16), (x[i + 1] % 16) * 16 + (x[i + 2] \div 4)>>
    ELSE
        <<x[i] * 4 + (x[i + 1] \div 16), (x[i + 1] % 16) * 16 + (x[i + 2] \div 4),
          (x[i + 2] % 4) * 64 + x[i + 3]>>

RECURSIVE B64BytesRange(_, _, _)
B64BytesRange(x, lo, hi) ==
    IF lo > hi THEN <<>>
    ELSE IF lo = hi THEN B64GroupBytes(x, lo)
    ELSE B64BytesRange(x, lo, (lo + hi) \div 2)
             \o B64BytesRange(x, (lo + hi) \div 2 + 1, hi)

Base64Decode(s) ==
    LET x == B64Sextets(s) IN B64BytesRange(x, 1, (Len(x) + 3) \div 4)

\* base64url.encode of openid-client's generators: no padding, '-' and '_'.
Base64UrlEncode(b) ==
    LET e == Base64Encode(b)
        u == [i \in 1..Len(e) |->
                 IF e[i] = 43 THEN 45 ELSE IF e[i] = 47 THEN 95 ELSE e[i]]
    IN  SelectSeq(u, LAMBDA c : c # 61)


\* ------------------------------------------------------------------------
\* JSON.  An object is the sequence of its <<key, value>> members in
\* insertion order, every value a string or undefined; the texts handled
\* are those of such objects and the literal null.
\* ------------------------------------------------------------------------
JsonEscapeUnit(c) ==
    IF c = 34 THEN <<92, 34>>
    ELSE IF c = 92 THEN <<92, 92>>
    ELSE IF c = 8 THEN <<92, 98>>
    ELSE IF c = 12 THEN <<92, 102>>
    ELSE IF c = 10 THEN <<92, 110>>
    ELSE IF c = 13 THEN <<92, 114>>
    ELSE IF c = 9 THEN <<92, 116>>
    ELSE IF c < 32 THEN <<92, 117, 48, 48, HexLower(c \div 16), HexLower(c % 16)>>
    ELSE <<c>>

\* JSON.stringify writes a surrogate that is not part of a pair as a \u
\* escape, so that its output is well-formed Unicode.
JsonEscapeAt(s, i) ==
    IF IsSurrogate(s[i]) /\ ~PairAt(s, i) /\ ~(i > 1 /\ PairAt(s, i - 1))
        THEN <<92, 117, HexLower(s[i] \div 4096), HexLower((s[i] \div 256) % 16),
               HexLower((s[i] \div 16) % 16), HexLower(s[i] % 16)>>
    ELSE JsonEscapeUnit(s[i])

RECURSIVE JsonEscapeRange(_, _, _)
JsonEscapeRange(s, lo, hi) ==
    IF lo > hi THEN <<>>
    ELSE IF lo = hi THEN JsonEscapeAt(s, lo)
    ELSE JsonEscapeRange(s, lo, (lo + hi) \div 2)
             \o JsonEscapeRange(s, (lo + hi) \div 2 + 1, hi)

JsonEscape(s) == JsonEscapeRange(s, 1, Len(s))

JsonQuote(s) == <<34>> \o JsonEscape(s) \o <<34>>

\* The members of an object, members whose value is undefined left out.
RECURSIVE JsonMembers(_, _)
JsonMembers(obj, first) ==
    IF obj = <<>> THEN <<>>
    ELSE IF Head(obj)[2] = Undefined THEN JsonMembers(Tail(obj), first)
    ELSE (IF first THEN <<>> ELSE <<44>>)
             \o JsonQuote(Head(obj)[1]) \o <<58>> \o JsonQuote(Head(obj)[2])
             \o JsonMembers(Tail(obj), FALSE)

JSONstringify(obj) == <<123>> \o JsonMembers(obj, TRUE) \o <<125>>

\* The number of backslashes that stand right before position i of t.
BackslashRun(t, i) ==
    LET others == {j \in 1..(i - 1) : t[j] # 92}
        lastOther == IF others = {} THEN 0
                     ELSE CHOOSE j \in others : \A k \in others : k <= j
    IN  i - 1 - lastOther

\* Position i of t follows an escaping backslash.
Escaped(t, i) == i > 1 /\ t[i - 1] = 92 /\ BackslashRun(t, i) % 2 = 1

\* The positions of the quotes of t that delimit its strings, in order.
JsonQuotes(t) ==
    SelectSeq([i \in 1..Len(t) |-> i], LAMBDA i : t[i] = 34 /\ ~Escaped(t, i))

\* What position i inside a string of t adds to the string's value: a
\* character, nothing (-2: a backslash, the digits of a \u escape), or a
\* syntax error (-1: a control character, an escape JSON does not have).
JsonUnitAt(t, i) ==
    IF Escaped(t, i) THEN
        (IF t[i] \in {34, 92, 47} THEN t[i]
         ELSE IF t[i] = 98 THEN 8
         ELSE IF t[i] = 102 THEN 12
         ELSE IF t[i] = 110 THEN 10
         ELSE IF t[i] = 114 THEN 13
         ELSE IF t[i] = 116 THEN 9
         ELSE IF t[i] = 117 /\ i + 4 <= Len(t)
                 /\ \A k \in 1..4 : HexVal(t[i + k]) >= 0
             THEN HexVal(t[i + 1]) * 4096 + HexVal(t[i + 2]) * 256
                      + HexVal(t[i + 3]) * 16 + HexVal(t[i + 4])
         ELSE -1)
    ELSE IF t[i] = 92 THEN -2
    ELSE IF \E k \in 1..4 : i - k >= 1 /\ t[i - k] = 117 /\ Escaped(t, i - k) THEN -2
    ELSE IF t[i] < 32 THEN -1
    ELSE t[i]

\* The string of t between the quotes at positions open and close.
JsonParseString(t, open, close) ==
    LET units == [k \in 1..(close - open - 1) |-> JsonUnitAt(t, open + k)]
    IN  [ok |-> \A k \in 1..Len(units) : units[k] # -1,
         val |-> SelectSeq(units, LAMBDA u : u >= 0)]

\* The members "key":"value" of the object text t, whose string quotes are q.
JsonParseMembers(t, q) ==
    LET n == Len(q) \div 4
        shaped ==
            /\ Len(q) >= 4 /\ Len(q) % 4 = 0
            /\ q[1] = 2
            /\ q[Len(q)] + 1 = Len(t) /\ t[Len(t)] = 125
            /\ \A m \in 1..n :
                /\ q[4 * m - 1] = q[4 * m - 2] + 2
                /\ t[q[4 * m - 2] + 1] = 58
                /\ m < n => q[4 * m + 1] = q[4 * m] + 2 /\ t[q[4 * m] + 1] = 44
        key(m) == JsonParseString(t, q[4 * m - 3], q[4 * m - 2])
        value(m) == JsonParseString(t, q[4 * m - 1], q[4 * m])
    IN  IF ~shaped THEN [ok |-> FALSE, val |-> <<>>]
        ELSE [ok |-> \A m \in 1..n : key(m).ok /\ value(m).ok,
              val |-> [m \in 1..n |-> <<key(m).val, value(m).val>>]]

JsonResult(ok, isNull, obj) == [ok |-> ok, isNull |-> isNull, obj |-> obj]

JsonObject(m) == JsonResult(m.ok, FALSE, IF m.ok THEN m.val ELSE <<>>)

JsonParseText(t) ==
    IF t = S_null THEN JsonResult(TRUE, TRUE, <<>>)
    ELSE IF Len(t) < 2 \/ t[1] # 123 THEN JsonResult(FALSE, FALSE, <<>>)
    ELSE IF t[2] = 125 THEN JsonResult(Len(t) = 2, FALSE, <<>>)
    ELSE JsonObject(JsonParseMembers(t, JsonQuotes(t)))

\* JSON.parse(x): x is converted to a string first; ok = FALSE is SyntaxError.
JSONparse(x) == JsonParseText(StringOf(x))

\* obj[key]: the value of the last member named key, undefined without one.
RECURSIVE Prop(_, _)
Prop(obj, key) ==
    IF obj = <<>> THEN Undefined
    ELSE IF obj[Len(obj)][1] = key THEN obj[Len(obj)][2]
    ELSE Prop(SubSeq(obj, 1, Len(obj) - 1), key)

\* ------------------------------------------------------------------------
\* The cookie library: serialize(name, value, options) and parse(header).
\* ------------------------------------------------------------------------
IsUnreserved(c) ==
    \/ c >= 65 /\ c <= 90
    \/ c >= 97 /\ c <= 122
    \/ c >= 48 /\ c <= 57
    \/ c \in {45, 95, 46, 33, 126, 42, 39, 40, 41}

PercentByte(b) == <<37, HexUpper(b \div 16), HexUpper(b % 16)>>

PercentUnit(c) ==
    IF IsUnreserved(c) THEN <<c>>
    ELSE LET b == Utf8OfUnit(c) IN
        IF Len(b) = 1 THEN PercentByte(b[1])
        ELSE IF Len(b) = 2 THEN PercentByte(b[1]) \o PercentByte(b[2])
        ELSE PercentByte(b[1]) \o PercentByte(b[2]) \o PercentByte(b[3])

RECURSIVE EncodeURIRange(_, _, _)
EncodeURIRange(s, lo, hi) ==
    IF lo > hi THEN <<>>
    ELSE IF lo = hi THEN PercentUnit(s[lo])
    ELSE EncodeURIRange(s, lo, (lo + hi) \div 2)
             \o EncodeURIRange(s, (lo + hi) \div 2 + 1, hi)

EncodeURIComponent(s) == EncodeURIRange(s, 1, Len(s))

\* Every '%' of s is followed by two hex digits.
WellEscaped(s) ==
    \A i \in 1..Len(s) :
        s[i] = 37 => i + 2 <= Len(s) /\ HexVal(s[i + 1]) >= 0 /\ HexVal(s[i + 2]) >= 0

\* The bytes position i of a well-escaped s stands for: the byte of a %XX
\* at its '%', nothing at its two digits, the UTF-8 of any other character.
UnescapeAt(s, i) ==
    IF s[i] = 37 THEN <<HexVal(s[i + 1]) * 16 + HexVal(s[i + 2])>>
    ELSE IF (i > 1 /\ s[i - 1] = 37) \/ (i > 2 /\ s[i - 2] = 37) THEN <<>>
    ELSE Utf8OfUnit(s[i])

RECURSIVE UnescapeRange(_, _, _)
UnescapeRange(s, lo, hi) ==
    IF lo > hi THEN <<>>
    ELSE IF lo = hi THEN UnescapeAt(s, lo)
    ELSE UnescapeRange(s, lo, (lo + hi) \div 2)
             \o UnescapeRange(s, (lo + hi) \div 2 + 1, hi)

\* cookie's tryDecode: decodeURIComponent(s), or s itself when that throws.
TryDecode(s) ==
    IF ~WellEscaped(s) THEN s
    ELSE LET b == UnescapeRange(s, 1, Len(s)) IN
        IF Utf8Encode(Utf8Decode(b)) # b THEN s ELSE Utf8Decode(b)

\* One Set-Cookie header.  The value is encodeURIComponent(val); Max-Age is
\* Math.floor(maxAge - 0), so the Date new Date(0) yields 0.
serialize(name, val, opt) ==
    [name |-> name,
     value |-> EncodeURIComponent(val),
     maxAge |-> opt.maxAge,
     path |-> opt.path,
     httpOnly |-> opt.httpOnly,
     secure |-> opt.secure]

\* The same for a compact JWS, which holds unreserved characters only and
\* so is left as it is by encodeURIComponent.
serializeCompact(name, token, opt) ==
    [name |-> name,
     value |-> token,
     maxAge |-> opt.maxAge,
     path |-> opt.path,
     httpOnly |-> opt.httpOnly,
     secure |-> opt.secure]

\* cookie.parse(header)[name]; header is the sequence of the name=value
\* pairs of a Cookie header, the first pair of a name the one that counts.
RECURSIVE parse(_, _)
parse(header, name) ==
    IF header = <<>> THEN Undefined
    ELSE IF Head(header).name = name THEN
        LET raw == Head(header).value
            unq == IF Len(raw) >= 1 /\ raw[1] = 34
                       THEN SubSeq(raw, 2, Len(raw) - 1) ELSE raw
        IN  TryDecode(unq)
    ELSE parse(Tail(header), name)


\* ------------------------------------------------------------------------
\* Module constants and process configuration (process.env).
\* ------------------------------------------------------------------------
NETLIFY_JWT_EXPIRATION_SECONDS == 14 * 24 * 3600

LOGIN_COOKIE_MAX_AGE == 30 * 60 * 1000

CROSSID_LOGIN_COOKIE_NAME == "crossid_login_cookie"

NETLIFY_COOKIE_NAME == "nf_jwt"

CROSSID_DOMAIN == "tenant.crossid.example"

CROSSID_CLIENT_ID == "client-1"

URL == "https://app.example"

TOKEN_SECRET == "secret-1"

CallbackURI == <<URL, "/.netlify/functions/callback">>

\* ------------------------------------------------------------------------
\* Bounds of the model.
\* ------------------------------------------------------------------------
MaxNonces == 4          \* random nonces drawn in one behaviour
NonceBytes == 1         \* bytes of one random nonce (32 in openid-client)
MaxIssued == 2          \* authorization responses the provider has issued
MaxNow == 1500          \* the latest reading of the clock, in milliseconds
MaxLen == 2             \* longest route string of the encoding round trip

\* process.env.NETLIFY_DEV === 'true': the deployed site, not netlify dev.
isRunningLocally == FALSE

VARIABLES
    rng,                \* number of random nonces drawn so far
    jar,                \* the cookies the browser holds for the site
    issued,             \* the authorization responses the provider issued
    last,               \* the last handler invocation: request and outcome
    route,              \* round trip: the route given to the encoder
    encoded,            \* round trip: the encoded state string, once made
    decoded             \* round trip: what the decoder read back, once read

vars == <<rng, jar, issued, last, route, encoded, decoded>>

\* ------------------------------------------------------------------------
\* openid-client: generators, discovery, the client's three methods.
\* ------------------------------------------------------------------------
\* crypto.randomBytes: the k-th draw; distinct draws give distinct bytes.
RandomBytes(k) == [i \in 1..NonceBytes |-> (251 + k) % 256]

\* generators.nonce(), the k-th draw.
GenNonce(k) == Base64UrlEncode(RandomBytes(k))

Call(op, nonce, state, ok) == [op |-> op, nonce |-> nonce, state |-> state, ok |-> ok]

\* Issuer.discover and new issuer.Client(...); reachable is the network's
\* answer to the discovery request.
getOpenIDClient(reachable) ==
    [ok |-> reachable,
     error |-> IF reachable THEN "" ELSE "RequestError",
     client |-> [issuer |-> CROSSID_DOMAIN,
                 client_id |-> CROSSID_CLIENT_ID,
                 redirect_uri |-> CallbackURI,
                 response_type |-> "id_token"]]

\* Mutant: the signing key is sent along as a query parameter.
authorizationUrl_WithKey(client, params) ==
    [endpoint |-> <<client.issuer, "authorization_endpoint">>,
     query |-> [client_id |-> client.client_id,
                scope |-> params.scope,
                response_type |-> client.response_type,
                redirect_uri |-> client.redirect_uri,
                response_mode |-> params.response_mode,
                nonce |-> params.nonce,
                state |-> params.state,
                client_secret |-> TOKEN_SECRET]]

\* client.authorizationUrl(params): the issuer's authorization endpoint
\* with the client's and the caller's parameters in the query.
authorizationUrl(client, params) ==
    [endpoint |-> <<client.issuer, "authorization_endpoint">>,
     query |-> [client_id |-> client.client_id,
                scope |-> params.scope,
                response_type |-> client.response_type,
                redirect_uri |-> client.redirect_uri,
                response_mode |-> params.response_mode,
                nonce |-> params.nonce,
                state |-> params.state]]

NoClaims == [aud |-> "", sub |-> "", groups |-> <<>>]

NoIdToken == [nonce |-> Undefined, claims |-> NoClaims, valid |-> FALSE]

NoParams == [hasIdToken |-> FALSE, id_token |-> NoIdToken, state |-> Undefined]

\* client.callbackParams(req) for req = {method: 'POST', body, url}: the
\* parsed form body; TypeError when url is empty or the body is undefined.
callbackParams(req) ==
    IF ~req.hasUrl \/ ~req.hasBody
        THEN [ok |-> FALSE, error |-> "TypeError", params |-> NoParams]
    ELSE [ok |-> TRUE, error |-> "", params |-> req.body]

\* Mutant: the response is validated, but never compared with the checks.
callback_Unchecked(params, checks, reachable) ==
    LET fail(e) == [ok |-> FALSE, error |-> e, hasIdToken |-> FALSE, claims |-> NoClaims]
    IN
    IF ~params.hasIdToken
        THEN [ok |-> TRUE, error |-> "", hasIdToken |-> FALSE, claims |-> NoClaims]
    ELSE IF ~reachable THEN fail("RequestError")
    ELSE IF ~params.id_token.valid THEN fail("RPError")
    ELSE [ok |-> TRUE, error |-> "", hasIdToken |-> TRUE,
          claims |-> params.id_token.claims]

\* client.callback(redirectUri, params, {nonce, state}): the state checks,
\* then the id_token's validation (signature, nonce); reachable is the
\* network's answer when the provider's keys are fetched.
callback(params, checks, reachable) ==
    LET fail(e) == [ok |-> FALSE, error |-> e, hasIdToken |-> FALSE, claims |-> NoClaims]
    IN
    IF Truthy(params.state) /\ ~Truthy(checks.state) THEN fail("TypeError")
    ELSE IF ~Truthy(params.state) /\ Truthy(checks.state) THEN fail("RPError")
    ELSE IF checks.state # params.state THEN fail("RPError")
    ELSE IF ~params.hasIdToken
        THEN [ok |-> TRUE, error |-> "", hasIdToken |-> FALSE, claims |-> NoClaims]
    ELSE IF ~reachable THEN fail("RequestError")
    ELSE IF ~params.id_token.valid THEN fail("RPError")
    ELSE IF (Truthy(params.id_token.nonce) \/ checks.nonce # Undefined)
            /\ params.id_token.nonce # checks.nonce THEN fail("RPError")
    ELSE [ok |-> TRUE, error |-> "", hasIdToken |-> TRUE,
          claims |-> params.id_token.claims]

\* jose's JWT.sign(payload, key, {algorithm, header}).
JWTsign(payload, key, algorithm, typ) ==
    [header |-> [alg |-> algorithm, typ |-> typ], payload |-> payload, key |-> key]


\* ------------------------------------------------------------------------
\* AuthUtils.js: cookies, state string, session token.
\* ------------------------------------------------------------------------
\* Mutant: the expiry is counted from the clock's milliseconds.
generateNetlifyJWT_ExpFromMs(tokenData, nowMs) ==
    LET iat == nowMs \div 1000
        exp == nowMs + NETLIFY_JWT_EXPIRATION_SECONDS
        tokenPayload ==
            [exp |-> exp,
             iat |-> iat,
             updated_at |-> iat,
             aud |-> tokenData.aud,
             sub |-> tokenData.sub,
             app_metadata |-> [authorization |-> [roles |-> tokenData.groups]]]
    IN  JWTsign(tokenPayload, TOKEN_SECRET, "HS256", "JWT")

\* Mutant: only the first group becomes a role.
generateNetlifyJWT_FirstGroupOnly(tokenData, nowMs) ==
    LET iat == nowMs \div 1000
        exp == iat + NETLIFY_JWT_EXPIRATION_SECONDS
        tokenPayload ==
            [exp |-> exp,
             iat |-> iat,
             updated_at |-> iat,
             aud |-> tokenData.aud,
             sub |-> tokenData.sub,
             app_metadata |->
                 [authorization |-> [roles |-> SubSeq(tokenData.groups, 1, 1)]]]
    IN  JWTsign(tokenPayload, TOKEN_SECRET, "HS256", "JWT")

generateNetlifyJWT(tokenData, nowMs) ==
    LET iat == nowMs \div 1000
        exp == iat + NETLIFY_JWT_EXPIRATION_SECONDS
        tokenPayload ==
            [exp |-> exp,
             iat |-> iat,
             updated_at |-> iat,
             aud |-> tokenData.aud,
             sub |-> tokenData.sub,
             app_metadata |-> [authorization |-> [roles |-> tokenData.groups]]]
    IN  JWTsign(tokenPayload, TOKEN_SECRET, "HS256", "JWT")

\* Mutant: the cookie keeps the nonce in both fields.
generateCrossIdLoginCookie_NonceTwice(nonce, encodedStateStr, local) ==
    LET cookieData == << <<S_nonce, nonce>>, <<S_state, nonce>> >>
    IN  serialize(CROSSID_LOGIN_COOKIE_NAME, JSONstringify(cookieData),
                  [secure |-> ~local, path |-> "/",
                   maxAge |-> LOGIN_COOKIE_MAX_AGE, httpOnly |-> TRUE])

generateCrossIdLoginCookie(nonce, encodedStateStr, local) ==
    LET cookieData == << <<S_nonce, nonce>>, <<S_state, encodedStateStr>> >>
    IN  serialize(CROSSID_LOGIN_COOKIE_NAME, JSONstringify(cookieData),
                  [secure |-> ~local, path |-> "/",
                   maxAge |-> LOGIN_COOKIE_MAX_AGE, httpOnly |-> TRUE])

\* Mutant: the route is kept as given, with no default.
generateEncodedStateString_NoDefault(r, k) ==
    LET state == << <<S_route, r>>, <<S_nonce, GenNonce(k)>> >>
        stateBuffer == Utf8Encode(JSONstringify(state))
    IN  Base64Encode(stateBuffer)

\* k is the draw of generators.nonce() the call makes.
generateEncodedStateString(r, k) ==
    LET state == << <<S_route, IF Truthy(r) THEN r ELSE S_slash>>,
                    <<S_nonce, GenNonce(k)>> >>
        stateBuffer == Utf8Encode(JSONstringify(state))
    IN  Base64Encode(stateBuffer)

\* Mutant: the reset cookie keeps the lifetime of the login cookie.
generateCrossIdLoginResetCookie_NotExpired(local) ==
    serialize(CROSSID_LOGIN_COOKIE_NAME, <<>>,
              [secure |-> ~local, httpOnly |-> TRUE, path |-> "/",
               maxAge |-> LOGIN_COOKIE_MAX_AGE])

generateCrossIdLoginResetCookie(local) ==
    serialize(CROSSID_LOGIN_COOKIE_NAME, <<>>,
              [secure |-> ~local, httpOnly |-> TRUE, path |-> "/", maxAge |-> 0])

\* Mutant: the logout cookie keeps the lifetime of the session cookie.
generateLogoutCookie_NotExpired(local) ==
    serialize(NETLIFY_COOKIE_NAME, <<>>,
              [secure |-> ~local, path |-> "/",
               maxAge |-> NETLIFY_JWT_EXPIRATION_SECONDS, httpOnly |-> TRUE])

generateLogoutCookie(local) ==
    serialize(NETLIFY_COOKIE_NAME, <<>>,
              [secure |-> ~local, path |-> "/", maxAge |-> 0, httpOnly |-> TRUE])

generateNetlifyCookieFromCrossIdToken(tokenData, nowMs, local) ==
    LET netlifyToken == generateNetlifyJWT(tokenData, nowMs)
    IN  serializeCompact(NETLIFY_COOKIE_NAME, netlifyToken,
                         [secure |-> ~local, path |-> "/",
                          maxAge |-> NETLIFY_JWT_EXPIRATION_SECONDS,
                          httpOnly |-> FALSE])

generateCrossIdLogoutUrl ==
    [endpoint |-> <<CROSSID_DOMAIN, "/v2/logout">>,
     query |-> [returnTo |-> URL, client_id |-> CROSSID_CLIENT_ID]]

\* The state string decoded as handleCallback does: base64, UTF-8, JSON.
decodeState(state) == JSONparse(Utf8Decode(Base64Decode(state)))

\* ------------------------------------------------------------------------
\* The outcome of one handler invocation: the object returned, or the
\* error thrown; calls are the collaborator calls made, in order.
\* ------------------------------------------------------------------------
NoResponse ==
    [statusCode |-> 0, Location |-> Undefined, CacheControl |-> "", SetCookie |-> <<>>]

Throw(e, calls) ==
    [outcome |-> "thrown", error |-> e, response |-> NoResponse, calls |-> calls]

Return(resp, calls) ==
    [outcome |-> "returned", error |-> "", response |-> resp, calls |-> calls]


\* ------------------------------------------------------------------------
\* The handlers.  An event is the request: present says whether an event
\* was passed at all, hasHeaders whether it has headers; referer, cookie
\* (the name=value pairs of the Cookie header, hasCookie when the header
\* is there) and host are the headers read; body is the posted form.
\* ------------------------------------------------------------------------
\* Mutant: the headers are not looked at.
malformedEvent_NoHeadersCheck(event) == ~event.present

malformedEvent(event) == ~event.present \/ ~event.hasHeaders

\* Mutant: the Referer is not put into the state.
handleLogin_NoReferer(event, reachable, k, local) ==
    IF malformedEvent(event) THEN Throw("Malformed event", <<>>)
    ELSE
    LET openIDClient == getOpenIDClient(reachable) IN
    IF ~openIDClient.ok
        THEN Throw(openIDClient.error, <<Call("discover", Undefined, Undefined, FALSE)>>)
    ELSE
    LET nonce == GenNonce(k)
        state == generateEncodedStateString(Undefined, k + 1)
        authRedirectURL ==
            authorizationUrl(openIDClient.client,
                             [scope |-> "openid email profile",
                              response_mode |-> "form_post",
                              nonce |-> nonce,
                              state |-> state])
    IN  Return([statusCode |-> 302,
                Location |-> authRedirectURL,
                CacheControl |-> "no-cache",
                SetCookie |-> <<generateCrossIdLoginCookie(nonce, state, local)>>],
               <<Call("discover", Undefined, Undefined, TRUE),
                 Call("authorizationUrl", nonce, state, TRUE)>>)

\* k is the number of random nonces drawn before the call.
handleLogin(event, reachable, k, local) ==
    IF malformedEvent(event) THEN Throw("Malformed event", <<>>)
    ELSE
    LET openIDClient == getOpenIDClient(reachable) IN
    IF ~openIDClient.ok
        THEN Throw(openIDClient.error, <<Call("discover", Undefined, Undefined, FALSE)>>)
    ELSE
    LET referer == event.referer
        nonce == GenNonce(k)
        state == generateEncodedStateString(referer, k + 1)
        authRedirectURL ==
            authorizationUrl(openIDClient.client,
                             [scope |-> "openid email profile",
                              response_mode |-> "form_post",
                              nonce |-> nonce,
                              state |-> state])
    IN  Return([statusCode |-> 302,
                Location |-> authRedirectURL,
                CacheControl |-> "no-cache",
                SetCookie |-> <<generateCrossIdLoginCookie(nonce, state, local)>>],
               <<Call("discover", Undefined, Undefined, TRUE),
                 Call("authorizationUrl", nonce, state, TRUE)>>)

\* handleCallback is written as its steps, last step first; each step takes
\* the values the steps before it computed.
ExchangeFailed(e, calls) ==
    [ok |-> FALSE, error |-> e, calls |-> calls, claims |-> NoClaims, state |-> Undefined]

CallsUpTo(step, checks, ok) ==
    <<Call("discover", Undefined, Undefined, step # "discover" \/ ok)>>
        \o (IF step = "discover" THEN <<>>
            ELSE <<Call("callbackParams", Undefined, Undefined,
                        step # "callbackParams" \/ ok)>>)
        \o (IF step \in {"discover", "callbackParams"} THEN <<>>
            ELSE <<Call("callback", checks.nonce, checks.state, ok)>>)

\* tokenSet.claims(), which throws when the token set has no id_token.
callbackClaims(checks, tokenSet) ==
    IF ~tokenSet.ok THEN ExchangeFailed(tokenSet.error, CallsUpTo("callback", checks, FALSE))
    ELSE IF ~tokenSet.hasIdToken
        THEN ExchangeFailed("TypeError", CallsUpTo("callback", checks, TRUE))
    ELSE [ok |-> TRUE, error |-> "", calls |-> CallsUpTo("callback", checks, TRUE),
          claims |-> tokenSet.claims, state |-> checks.state]

\* Mutant: the checks are taken from the posted response itself.
callbackChecks_FromResponse(nonce, state, params) ==
    [nonce |-> params.id_token.nonce, state |-> params.state]

\* The checks handed to client.callback.
callbackChecks(nonce, state, params) == [nonce |-> nonce, state |-> state]

\* await openIDClient.callback(redirect_uri, params, {nonce, state})
callbackTokenSet(checks, params, reachable2) ==
    callbackClaims(checks, callback(params, checks, reachable2))

\* const params = openIDClient.callbackParams(req)
callbackExtracted(nonce, state, params, reachable2) ==
    IF ~params.ok
        THEN ExchangeFailed(params.error, CallsUpTo("callbackParams", NoParams, FALSE))
    ELSE callbackTokenSet(callbackChecks(nonce, state, params.params),
                          params.params, reachable2)

\* const { nonce, state } = JSON.parse(loginCookie), and the request shape
callbackCookie(event, cookieData, reachable2) ==
    IF ~cookieData.ok
        THEN ExchangeFailed("SyntaxError", CallsUpTo("discover", NoParams, TRUE))
    ELSE IF cookieData.isNull
        THEN ExchangeFailed("TypeError", CallsUpTo("discover", NoParams, TRUE))
    ELSE callbackExtracted(
             Prop(cookieData.obj, S_nonce),
             Prop(cookieData.obj, S_state),
             callbackParams([hasBody |-> event.hasBody, body |-> event.body,
                             hasUrl |-> event.hasHost]),
             reachable2)

\* Mutant: a failed discovery is tried once more before giving up.
callbackDiscovered_Retry(event, openIDClient, reachable2) ==
    IF ~openIDClient.ok
        THEN ExchangeFailed(openIDClient.error,
                            CallsUpTo("discover", NoParams, FALSE)
                                \o CallsUpTo("discover", NoParams, FALSE))
    ELSE callbackCookie(
             event,
             JSONparse(parse(event.cookie, CROSSID_LOGIN_COOKIE_NAME)),
             reachable2)

\* const openIDClient = await getOpenIDClient(), then the cookie is parsed
callbackDiscovered(event, openIDClient, reachable2) ==
    IF ~openIDClient.ok
        THEN ExchangeFailed(openIDClient.error, CallsUpTo("discover", NoParams, FALSE))
    ELSE callbackCookie(
             event,
             JSONparse(parse(event.cookie, CROSSID_LOGIN_COOKIE_NAME)),
             reachable2)

\* Mutant: the Cookie header is not looked at.
invalidRequest_NoCookieCheck(event) == ~event.present \/ ~event.hasHeaders

invalidRequest(event) ==
    ~event.present \/ ~event.hasHeaders \/ ~event.hasCookie \/ event.cookie = <<>>

\* handleCallback up to the token exchange: the claims of the id_token and
\* the state of the correlation cookie, or the error thrown on the way.
callbackExchange(event, reachable, reachable2) ==
    IF invalidRequest(event) THEN ExchangeFailed("Invalid request", <<>>)
    ELSE callbackDiscovered(event, getOpenIDClient(reachable), reachable2)

\* Mutant: the response sets the session cookie only.
callbackRedirect_NoReset(x, decodedState, calls, nowMs, local) ==
    IF ~decodedState.ok THEN Throw("SyntaxError", calls)
    ELSE IF decodedState.isNull THEN Throw("TypeError", calls)
    ELSE Return([statusCode |-> 302,
                 Location |-> Prop(decodedState.obj, S_route),
                 CacheControl |-> "no-cache",
                 SetCookie |-> <<generateNetlifyCookieFromCrossIdToken(
                                     x.claims, nowMs, local)>>],
                calls)

\* The response object, built from the decoded state.
callbackRedirect(x, decodedState, calls, nowMs, local) ==
    IF ~decodedState.ok THEN Throw("SyntaxError", calls)
    ELSE IF decodedState.isNull THEN Throw("TypeError", calls)
    ELSE Return([statusCode |-> 302,
                 Location |-> Prop(decodedState.obj, S_route),
                 CacheControl |-> "no-cache",
                 SetCookie |-> <<generateNetlifyCookieFromCrossIdToken(
                                     x.claims, nowMs, local),
                                 generateCrossIdLoginResetCookie(local)>>],
                calls)

\* The session cookie is minted, then the state is decoded; Buffer.from
\* throws on a state that is no string.
callbackRespond(x, nowMs, local) ==
    IF ~x.ok THEN Throw(x.error, x.calls)
    ELSE IF x.state = Undefined
        THEN Throw("TypeError", Append(x.calls, Call("sign", Undefined, Undefined, TRUE)))
    ELSE callbackRedirect(x, decodeState(x.state),
                          Append(x.calls, Call("sign", Undefined, Undefined, TRUE)),
                          nowMs, local)

\* Mutant: the server remembers the exchange it completed, and refuses
\* the next callback.
handleCallback_Remembers(event, reachable, reachable2, nowMs, local) ==
    IF last.handler = "callback" /\ last.outcome = "returned"
        THEN Throw("Error", <<>>)
    ELSE callbackRespond(callbackExchange(event, reachable, reachable2), nowMs, local)

handleCallback(event, reachable, reachable2, nowMs, local) ==
    callbackRespond(callbackExchange(event, reachable, reachable2), nowMs, local)

handleLogout(local) ==
    Return([statusCode |-> 302,
            Location |-> generateCrossIdLogoutUrl,
            CacheControl |-> "no-cache",
            SetCookie |-> <<generateLogoutCookie(local)>>],
           <<>>)


\* ------------------------------------------------------------------------
\* The environment: the browser, the provider, the requests that arrive.
\* ------------------------------------------------------------------------
Referers == {Undefined, <<47, 97>>}                     \* no Referer, "/a"

\* The values Date.now() takes.
Times == {0, MaxNow}

\* The claims of the user the provider authenticates.
UserClaims == [aud |-> "A", sub |-> "S", groups |-> <<"g2", "g1", "g2">>]

\* An authorization request made by hand, not taken from a login redirect:
\* a state that decodes to an object without a route.
CraftedNonce == <<110>>                                 \* "n"

CraftedState == Base64Encode(Utf8Encode(JSONstringify(<<>>)))

\* The claims of the user of that client.
CraftedClaims == [aud |-> "B", sub |-> "T", groups |-> <<"g1">>]

CraftedCookieValues ==
    {<<120>>,                                           \* x
     EncodeURIComponent(JSONstringify(
         << <<S_nonce, CraftedNonce>>, <<S_state, CraftedState>> >>))}

NoEvent ==
    [present |-> FALSE, hasHeaders |-> FALSE, referer |-> Undefined,
     hasCookie |-> FALSE, cookie |-> <<>>, hasHost |-> FALSE,
     hasBody |-> FALSE, body |-> NoParams]

LoginEvents ==
    {NoEvent, [NoEvent EXCEPT !.present = TRUE]}
        \cup {[NoEvent EXCEPT !.present = TRUE, !.hasHeaders = TRUE,
                              !.hasHost = TRUE, !.referer = r] : r \in Referers}

\* The Cookie header the browser sends: none when it holds no cookie.
CookiePairs(j) ==
    (IF j.login = Undefined THEN <<>>
     ELSE <<[name |-> CROSSID_LOGIN_COOKIE_NAME, value |-> j.login]>>)
    \o (IF j.session = <<>> THEN <<>>
        ELSE <<[name |-> NETLIFY_COOKIE_NAME, value |-> j.session[1]]>>)

\* The form the provider posts for an issued response, and forgeries of it.
PostedForm(r) ==
    [hasIdToken |-> TRUE,
     id_token |-> [nonce |-> r.nonce, claims |-> r.claims, valid |-> TRUE],
     state |-> r.state]

Bodies ==
    {PostedForm(r) : r \in issued}
        \cup {[PostedForm(r) EXCEPT !.id_token.valid = FALSE] : r \in issued}
        \cup {[PostedForm(r) EXCEPT !.hasIdToken = FALSE, !.id_token = NoIdToken] :
                  r \in issued}

BrowserEvent(pairs) ==
    [NoEvent EXCEPT !.present = TRUE, !.hasHeaders = TRUE, !.hasHost = TRUE,
                    !.hasCookie = (pairs # <<>>), !.cookie = pairs]

CallbackEvents ==
    {NoEvent,
     [NoEvent EXCEPT !.present = TRUE],
     BrowserEvent(CookiePairs(jar)),
     [BrowserEvent(CookiePairs(jar)) EXCEPT !.hasHost = FALSE, !.hasBody = TRUE]}
        \cup {[BrowserEvent(CookiePairs(jar)) EXCEPT !.hasBody = TRUE, !.body = b] :
                  b \in Bodies}

\* The browser takes the Set-Cookie headers of a response in order; a
\* Max-Age of 0 or less removes the cookie.
StoreCookie(j, c) ==
    IF c.name = CROSSID_LOGIN_COOKIE_NAME
        THEN [j EXCEPT !.login = IF c.maxAge <= 0 THEN Undefined ELSE c.value]
    ELSE [j EXCEPT !.session = IF c.maxAge <= 0 THEN <<>> ELSE <<c.value>>]

RECURSIVE StoreCookies(_, _)
StoreCookies(j, cookies) ==
    IF cookies = <<>> THEN j
    ELSE StoreCookies(StoreCookie(j, Head(cookies)), Tail(cookies))

Invocation(handler, event, at, result) ==
    [handler |-> handler, event |-> event, at |-> at,
     outcome |-> result.outcome, error |-> result.error,
     response |-> result.response, calls |-> result.calls]

NoInvocation ==
    [handler |-> "none", event |-> NoEvent, at |-> 0,
     outcome |-> "none", error |-> "", response |-> NoResponse, calls |-> <<>>]

Init ==
    /\ rng = 0
    /\ jar = [login |-> Undefined, session |-> <<>>]
    /\ issued = {}
    /\ last = NoInvocation
    /\ route = Undefined
    /\ encoded = <<>>
    /\ decoded = <<>>

\* The response reaches the browser, which stores its cookies.
Respond(handler, event, at, result) ==
    /\ last' = Invocation(handler, event, at, result)
    /\ jar' = StoreCookies(jar, result.response.SetCookie)
    /\ rng' = rng + Len(SelectSeq(result.calls, LAMBDA c : c.op = "authorizationUrl")) * 2

\* A request to the login function.
Login ==
    /\ rng + 2 <= MaxNonces
    /\ \E event \in LoginEvents, reachable \in BOOLEAN :
        Respond("login", event, 0, handleLogin(event, reachable, rng, isRunningLocally))
    /\ UNCHANGED <<issued, route, encoded, decoded>>

\* The browser follows the redirect of the login just made; the provider
\* authenticates the user and issues the response for that request.
Authorize ==
    /\ Cardinality(issued) < MaxIssued
    /\ last.handler = "login" /\ last.outcome = "returned"
    /\ issued' = issued \cup {[nonce |-> last.response.Location.query.nonce,
                               state |-> last.response.Location.query.state,
                               claims |-> UserClaims]}
    /\ UNCHANGED <<rng, jar, last, route, encoded, decoded>>

\* A client that builds the authorization request by hand ...
AuthorizeCrafted ==
    /\ Cardinality(issued) < MaxIssued
    /\ issued' = issued \cup {[nonce |-> CraftedNonce, state |-> CraftedState,
                               claims |-> CraftedClaims]}
    /\ UNCHANGED <<rng, jar, last, route, encoded, decoded>>

\* ... and sets the correlation cookie by hand.
SetCookie ==
    /\ \E v \in CraftedCookieValues : jar' = [jar EXCEPT !.login = v]
    /\ UNCHANGED <<rng, issued, last, route, encoded, decoded>>

\* What the network and the clock do during one callback: the provider's
\* discovery document or its keys may be out of reach.
CallbackRuns ==
    {[discovery |-> TRUE, keys |-> TRUE, at |-> t] : t \in Times}
        \cup {[discovery |-> FALSE, keys |-> TRUE, at |-> 0],
              [discovery |-> TRUE, keys |-> FALSE, at |-> 0]}

\* A request to the callback function, with the cookies the browser holds.
Callback ==
    /\ \E event \in CallbackEvents, run \in CallbackRuns :
        Respond("callback", event, run.at,
                handleCallback(event, run.discovery, run.keys, run.at,
                               isRunningLocally))
    /\ UNCHANGED <<issued, route, encoded, decoded>>

\* A request to the logout function; the handler takes no argument.
Logout ==
    /\ \E event \in LoginEvents \cup {BrowserEvent(CookiePairs(jar))} :
        Respond("logout", event, 0, handleLogout(isRunningLocally))
    /\ UNCHANGED <<issued, route, encoded, decoded>>

Next ==
    \/ Login
    \/ Authorize
    \/ AuthorizeCrafted
    \/ SetCookie
    \/ Callback
    \/ Logout

Spec == Init /\ [][Next]_vars

\* ------------------------------------------------------------------------
\* The round trip of the state string: encoded by
\* generateEncodedStateString, decoded as handleCallback decodes it.
\* ------------------------------------------------------------------------
\* a / " \ LF e-acute euro, and the two surrogates of U+1F600
Alphabet == {97, 47, 34, 92, 10, 233, 8364, 55357, 56832}

RouteStrings == UNION {[1..n -> Alphabet] : n \in 0..MaxLen}

\* decodedState.route of handleCallback; thrown when JSON.parse throws or
\* yields null.
decodedRoute(decodedState) ==
    [thrown |-> ~decodedState.ok \/ decodedState.isNull,
     route |-> Prop(decodedState.obj, S_route)]

RoundTripInit ==
    /\ rng \in 0..(MaxNonces - 1)
    /\ jar = [login |-> Undefined, session |-> <<>>]
    /\ issued = {}
    /\ last = NoInvocation
    /\ route \in RouteStrings \cup {Undefined}
    /\ encoded = <<>>
    /\ decoded = <<>>

Encode ==
    /\ encoded = <<>>
    /\ encoded' = <<generateEncodedStateString(route, rng)>>
    /\ UNCHANGED <<rng, jar, issued, last, route, decoded>>

Decode ==
    /\ encoded # <<>> /\ decoded = <<>>
    /\ decoded' = <<decodedRoute(decodeState(encoded[1]))>>
    /\ UNCHANGED <<rng, jar, issued, last, route, encoded>>

RoundTripNext == Encode \/ Decode

RoundTripSpec == RoundTripInit /\ [][RoundTripNext]_vars

\* ------------------------------------------------------------------------
\* Properties.
\* ------------------------------------------------------------------------
\* The response of the last invocation sets a session cookie.
SessionIssued ==
    \E i \in 1..Len(last.response.SetCookie) :
        /\ last.response.SetCookie[i].name = NETLIFY_COOKIE_NAME
        /\ last.response.SetCookie[i].maxAge > 0

\* The correlation cookie of the last request, read from its Cookie header.
RequestCookieData == JSONparse(parse(last.event.cookie, CROSSID_LOGIN_COOKIE_NAME))

RequestNonce == Prop(RequestCookieData.obj, S_nonce)

RequestState == Prop(RequestCookieData.obj, S_state)

\* The posted provider response does not answer the request's cookie.
ResponseMismatch ==
    /\ last.event.hasBody
    /\ \/ last.event.body.state # RequestState
       \/ last.event.body.id_token.nonce # RequestNonce
       \/ ~last.event.body.id_token.valid

\* C1: a callback response carries a session cookie only if client.callback
\* was called with exactly the nonce and state of the correlation cookie of
\* that request and returned; when the posted provider response does not
\* match them the handler throws and sets no session cookie.
C1_SessionOnlyAfterVerifiedExchange ==
    last.handler = "callback" =>
        /\ SessionIssued =>
            /\ last.outcome = "returned"
            /\ RequestCookieData.ok /\ ~RequestCookieData.isNull
            /\ \E i \in 1..Len(last.calls) :
                /\ last.calls[i].op = "callback"
                /\ last.calls[i].ok
                /\ last.calls[i].nonce = RequestNonce
                /\ last.calls[i].state = RequestState
        /\ ResponseMismatch => last.outcome = "thrown" /\ ~SessionIssued

C1_Witness ==
    /\ last.handler = "callback" /\ last.outcome = "returned" /\ SessionIssued
    /\ ~ResponseMismatch

\* The response object of the last invocation is whole: status, Location,
\* Cache-Control and the cookies of the handler's contract.
CompleteResponse ==
    /\ last.response.statusCode = 302
    /\ last.response.CacheControl = "no-cache"
    /\ IF last.handler = "callback"
        THEN /\ Truthy(last.response.Location)
             /\ Len(last.response.SetCookie) = 2
             /\ last.response.SetCookie[1].name = NETLIFY_COOKIE_NAME
             /\ last.response.SetCookie[2].name = CROSSID_LOGIN_COOKIE_NAME
        ELSE /\ last.response.Location.query.client_id = CROSSID_CLIENT_ID
             /\ Len(last.response.SetCookie) = 1

\* A step of the callback before the response is built fails.
CallbackStepFails ==
    \/ invalidRequest(last.event)
    \/ ~RequestCookieData.ok
    \/ RequestCookieData.isNull
    \/ ~last.event.hasBody
    \/ ~last.event.body.hasIdToken
    \/ ResponseMismatch

\* C2: an invocation ends in exactly one of two ways, the complete response
\* object or a thrown error with no response at all; a failing cookie
\* check, cookie parse, token exchange or claim extraction throws.
C2_AllOrNothing ==
    last.handler # "none" =>
        /\ \/ last.outcome = "returned" /\ CompleteResponse
           \/ last.outcome = "thrown" /\ last.response = NoResponse
        /\ (last.handler = "callback" /\ CallbackStepFails) => last.outcome = "thrown"

\* C3: a callback with no request, no headers or no Cookie header throws
\* "Invalid request" before any call to the provider, and sets no cookie.
C3_InvalidRequestBeforeProvider ==
    (/\ last.handler = "callback"
     /\ (~last.event.present \/ ~last.event.hasHeaders \/ ~last.event.hasCookie))
        => /\ last.outcome = "thrown"
           /\ last.error = "Invalid request"
           /\ last.calls = <<>>
           /\ last.response = NoResponse

C3_Witness ==
    /\ last.handler = "callback"
    /\ last.event.present /\ last.event.hasHeaders /\ ~last.event.hasCookie
    /\ last.event.hasBody
    /\ last.error = "Invalid request"

\* The Cookie header of the last request has cookies, none of them the
\* correlation cookie.
NoLoginCookieInHeader ==
    /\ last.event.present /\ last.event.hasHeaders /\ last.event.hasCookie
    /\ last.event.cookie # <<>>
    /\ \A i \in 1..Len(last.event.cookie) :
           last.event.cookie[i].name # CROSSID_LOGIN_COOKIE_NAME

\* C4: a callback whose Cookie header holds no crossid_login_cookie fails
\* with the same "Invalid request" error as a callback with no Cookie header
\* (the provider answering every call made).
C4_MissingLoginCookieInvalidRequest ==
    (/\ last.handler = "callback" /\ NoLoginCookieInHeader
     /\ \A i \in 1..Len(last.calls) : last.calls[i].ok)
        => last.outcome = "thrown" /\ last.error = "Invalid request"

\* C5: a login with no event or no headers throws "Malformed event" before
\* any nonce, state, cookie or provider call.
C5_MalformedEventBeforeAnything ==
    (last.handler = "login" /\ (~last.event.present \/ ~last.event.hasHeaders))
        => /\ last.outcome = "thrown"
           /\ last.error = "Malformed event"
           /\ last.calls = <<>>
           /\ last.response = NoResponse

C5_Witness ==
    /\ last.handler = "login"
    /\ last.event.present /\ ~last.event.hasHeaders
    /\ last.error = "Malformed event"

\* The correlation cookie a login response sets, read back as a browser
\* would return it.
LoginCookieData == JSONparse(TryDecode(last.response.SetCookie[1].value))

\* C6: the correlation cookie of a login response holds the nonce and the
\* state of the authorization URL of the same response.
C6_CookieMatchesAuthorizationUrl ==
    (last.handler = "login" /\ last.outcome = "returned")
        => /\ Len(last.response.SetCookie) = 1
           /\ last.response.SetCookie[1].name = CROSSID_LOGIN_COOKIE_NAME
           /\ LoginCookieData.ok /\ ~LoginCookieData.isNull
           /\ Prop(LoginCookieData.obj, S_nonce) = last.response.Location.query.nonce
           /\ Prop(LoginCookieData.obj, S_state) = last.response.Location.query.state

C6_Witness ==
    /\ last.handler = "login" /\ last.outcome = "returned"
    /\ IsString(last.response.Location.query.nonce)
    /\ IsString(last.response.Location.query.state)
    /\ last.response.Location.query.nonce # last.response.Location.query.state
    /\ Truthy(last.event.referer)

\* C7: the route read from generateEncodedStateString(route) by base64
\* decoding and JSON parsing is the route given, or "/" when the route was
\* empty or absent.
C7_RouteRoundTrip ==
    decoded # <<>> =>
        /\ ~decoded[1].thrown
        /\ decoded[1].route = (IF route = Undefined \/ route = <<>> THEN S_slash ELSE route)

C7_Witness ==
    /\ decoded # <<>>
    /\ route = <<34, 8364>>
    /\ decoded[1].route = route

\* C8: the correlation cookie of a login response lives 30 minutes, a
\* Max-Age of 1800 seconds.
C8_LoginCookieMaxAge1800 ==
    (last.handler = "login" /\ last.outcome = "returned")
        => /\ Len(last.response.SetCookie) = 1
           /\ last.response.SetCookie[1].maxAge = 1800

\* The payload of the session token a callback response sets.
SessionPayload == last.response.SetCookie[1].value.payload

\* C9: in every session token exp - iat is 14 * 24 * 3600 seconds and
\* updated_at is iat, whatever the time of the callback.
C9_SessionLifetime ==
    (last.handler = "callback" /\ last.outcome = "returned")
        => /\ last.response.SetCookie[1].name = NETLIFY_COOKIE_NAME
           /\ SessionPayload.exp - SessionPayload.iat = 1209600
           /\ SessionPayload.updated_at = SessionPayload.iat

C9_Witness ==
    /\ last.handler = "callback" /\ last.outcome = "returned"
    /\ last.at > 0
    /\ SessionPayload.iat > 0

\* The claims of the id_token the provider posted with the last request.
PostedClaims == last.event.body.id_token.claims

\* C10: the session token carries the aud and sub of the verified id_token
\* and, as its roles, the token's groups, unchanged.
C10_ClaimsCopied ==
    (last.handler = "callback" /\ last.outcome = "returned")
        => /\ last.response.SetCookie[1].name = NETLIFY_COOKIE_NAME
           /\ SessionPayload.aud = PostedClaims.aud
           /\ SessionPayload.sub = PostedClaims.sub
           /\ SessionPayload.app_metadata.authorization.roles = PostedClaims.groups

C10_Witness ==
    /\ last.handler = "callback" /\ last.outcome = "returned"
    /\ Len(PostedClaims.groups) > 1
    /\ PostedClaims.aud # PostedClaims.sub
    /\ Len(SessionPayload.app_metadata.authorization.roles) > 1

\* The flow state of the last request: the state of its correlation
\* cookie, decoded.
RequestFlowState == decodeState(RequestState)

RequestRoute == Prop(RequestFlowState.obj, S_route)

\* C11: every successful callback response is a 302 to the route decoded
\* from the state of the request's correlation cookie, with exactly two
\* Set-Cookie entries: the session cookie carrying the signed token, and
\* the correlation cookie cleared with a max-age of 0.
C11_CallbackResponseShape ==
    (last.handler = "callback" /\ last.outcome = "returned")
        => /\ last.response.statusCode = 302
           /\ last.response.Location = RequestRoute
           /\ Len(last.response.SetCookie) = 2
           /\ last.response.SetCookie[1].name = NETLIFY_COOKIE_NAME
           /\ last.response.SetCookie[1].value.key = TOKEN_SECRET
           /\ last.response.SetCookie[1].value.header = [alg |-> "HS256", typ |-> "JWT"]
           /\ last.response.SetCookie[1].maxAge > 0
           /\ last.response.SetCookie[2].name = CROSSID_LOGIN_COOKIE_NAME
           /\ last.response.SetCookie[2].value = <<>>
           /\ last.response.SetCookie[2].maxAge = 0

C11_Witness ==
    /\ last.handler = "callback" /\ last.outcome = "returned"
    /\ last.response.Location = <<47, 97>>
    /\ Len(last.response.SetCookie) = 2

\* C12: when the route of the decoded flow state is empty or absent, the
\* callback's response redirects to "/".
C12_CallbackDefaultRoute ==
    (/\ last.handler = "callback" /\ last.outcome = "returned"
     /\ ~Truthy(RequestRoute))
        => last.response.Location = S_slash

\* The one response of the logout function.
LogoutResponse ==
    [statusCode |-> 302,
     Location |-> [endpoint |-> <<CROSSID_DOMAIN, "/v2/logout">>,
                   query |-> [returnTo |-> URL, client_id |-> CROSSID_CLIENT_ID]],
     CacheControl |-> "no-cache",
     SetCookie |-> <<[name |-> NETLIFY_COOKIE_NAME, value |-> <<>>, maxAge |-> 0,
                      path |-> "/", httpOnly |-> TRUE,
                      secure |-> ~isRunningLocally]>>]

\* C13: the logout function returns, for any request and in any state, the
\* same response: 302 to the provider's logout URL with one Set-Cookie
\* clearing the session cookie with max-age 0; it never fails, and as the
\* response is always the same and touches the session cookie only, a
\* second logout leaves the browser as the first did.
C13_LogoutUnconditional ==
    last.handler = "logout"
        => /\ last.outcome = "returned"
           /\ last.response = LogoutResponse
           /\ jar.session = <<>>

\* A logout of a browser that held a session and sent its cookie.
C13_Witness ==
    /\ last.handler = "logout"
    /\ \E i \in 1..Len(last.event.cookie) :
           last.event.cookie[i].name = NETLIFY_COOKIE_NAME
    /\ jar.session = <<>>

\* The names of the query parameters of the URL a login or a logout
\* redirects to.
QueryNames == DOMAIN last.response.Location.query

\* C14, as stated: no secret value (the nonce, the encoded state, the
\* signing key) is a query parameter of a URL a handler emits.
C14_NoSecretInQuery ==
    (last.handler \in {"login", "logout"} /\ last.outcome = "returned")
        => /\ "nonce" \notin QueryNames
           /\ "state" \notin QueryNames
           /\ \A f \in QueryNames \cap {"client_id", "client_secret", "scope"} :
                  last.response.Location.query[f] # TOKEN_SECRET

\* C14, amended: the signing key is in no URL; the nonce and the encoded
\* state are query parameters of the authorization URL of the login
\* redirect, which goes to the provider, and of no other URL: the logout
\* URL carries returnTo and client_id only, and the callback redirects to
\* the route, which is neither the nonce nor the state.
C14_SecretsOnlyInAuthorizationRequest ==
    /\ (last.handler = "login" /\ last.outcome = "returned")
        => /\ last.response.Location.endpoint = <<CROSSID_DOMAIN, "authorization_endpoint">>
           /\ QueryNames = {"client_id", "scope", "response_type", "redirect_uri",
                            "response_mode", "nonce", "state"}
           /\ \A f \in {"client_id", "scope", "response_type", "response_mode"} :
                  last.response.Location.query[f] # TOKEN_SECRET
    /\ last.handler = "logout"
        => /\ QueryNames = {"returnTo", "client_id"}
           /\ last.response.Location.query.client_id # TOKEN_SECRET
    /\ (last.handler = "callback" /\ last.outcome = "returned")
        => /\ last.response.Location # RequestNonce
           /\ last.response.Location # RequestState

C14_Witness ==
    /\ last.handler = "login" /\ last.outcome = "returned"
    /\ "nonce" \in QueryNames
    /\ last.response.Location.query.response_mode = "form_post"
    /\ IsString(last.response.Location.query.nonce)

\* The last request posted a well-formed provider response, signed by the
\* provider, beside a correlation cookie that parses.
PostedValidResponse ==
    /\ last.handler = "callback"
    /\ last.event.hasBody /\ last.event.body.hasIdToken
    /\ last.event.body.id_token.valid
    /\ RequestCookieData.ok /\ ~RequestCookieData.isNull

\* The posted response answers the login whose cookie the request carries.
PostedForHeldCookie ==
    /\ last.event.body.id_token.nonce = RequestNonce
    /\ last.event.body.state = RequestState

\* A response is checked against the cookie the browser holds: one issued
\* for another login is rejected and no session cookie is set, one issued
\* for this login is accepted unless the provider is out of reach.
CheckedAgainstHeldCookie ==
    PostedValidResponse =>
        IF PostedForHeldCookie
            THEN last.event.hasHost =>
                    \/ last.outcome = "returned" /\ SessionIssued
                    \/ last.outcome = "thrown" /\ last.error = "RequestError"
        ELSE last.outcome = "thrown" /\ ~SessionIssued

\* A login that returns draws from the random stream, and the browser then
\* holds the cookie of that login in place of any it held before.
LoginOverwrites ==
    rng' # rng =>
        /\ last'.handler = "login" /\ last'.outcome = "returned"
        /\ jar'.login = last'.response.SetCookie[1].value
        /\ jar'.session = jar.session

\* C15: the browser holds one correlation cookie, that of its latest login;
\* after logins L1 and L2 a callback with the provider's response for L1 is
\* checked against L2's nonce and state and rejected with no session
\* cookie, and the callback for L2 is accepted.
C15_LatestLoginWins == [](CheckedAgainstHeldCookie) /\ [][LoginOverwrites]_vars

\* The response for the first login, posted with the cookie of the second.
C15_Witness ==
    /\ PostedValidResponse
    /\ last.event.body.id_token.nonce = GenNonce(0)
    /\ RequestNonce = GenNonce(2)
    /\ last.outcome = "thrown"
    /\ jar.login # Undefined

\* Two Cookie headers hold the same cookies.
SameCookies(a, b) ==
    /\ Len(a) = Len(b)
    /\ \A i \in 1..Len(a) : a[i].name = b[i].name /\ a[i].value = b[i].value

\* The step is a callback made by the browser with the cookies it holds.
BrowserCallbackStep ==
    /\ last'.handler = "callback"
    /\ last'.event.hasHeaders
    /\ SameCookies(last'.event.cookie, CookiePairs(jar))
    /\ jar' = StoreCookies(jar, last'.response.SetCookie)
    /\ rng' = rng /\ issued' = issued

\* A callback that succeeds clears the browser's correlation cookie, and a
\* callback of a browser without that cookie fails and sets no cookie.
SingleShot ==
    BrowserCallbackStep =>
        /\ last'.outcome = "returned" => jar'.login = Undefined
        /\ jar.login = Undefined
              => /\ last'.outcome = "thrown"
                 /\ last'.response.SetCookie = <<>>
                 /\ jar' = jar

\* The browser gets a correlation cookie again from a login only (or from
\* the client that writes its cookie by hand).
CookieOnlyFromLogin ==
    (jar.login = Undefined /\ jar'.login # Undefined)
        => \/ rng' # rng /\ last'.handler = "login" /\ last'.outcome = "returned"
           \/ jar'.login \in CraftedCookieValues /\ last'.handler = last.handler

\* C16: a login attempt is single-shot: a successful callback clears the
\* correlation cookie in the browser, and every later callback from that
\* browser, a replay of the same provider response included, fails and
\* mints no session token, until the login function is invoked again.
C16_SingleShot == [][SingleShot /\ CookieOnlyFromLogin]_vars

\* The provider's response, replayed by the browser after its login
\* completed.
C16_Witness ==
    /\ last.handler = "callback" /\ last.outcome = "thrown"
    /\ NoLoginCookieInHeader
    /\ last.event.hasBody /\ last.event.body.hasIdToken
    /\ last.event.body.id_token.valid
    /\ jar.session # <<>> /\ jar.login = Undefined

\* The steps of the last invocation, in the order they ran.
StepsRun == [i \in 1..Len(last.calls) |-> last.calls[i].op]

IsPrefix(a, b) == Len(a) <= Len(b) /\ \A i \in 1..Len(a) : a[i] = b[i]

\* The steps of each handler, in the documented order.
StepsOf(handler) ==
    IF handler = "login" THEN <<"discover", "authorizationUrl">>
    ELSE IF handler = "callback"
        THEN <<"discover", "callbackParams", "callback", "sign">>
    ELSE <<>>

\* C17: within one invocation the steps run in the documented order, each
\* at most once and with no retry: discovery before the authorization URL
\* in a login; discovery, parameter extraction, one token exchange, token
\* minting in a callback; a step that fails is the last step run, and the
\* invocation ends with an error.
C17_StepsInOrderNoRetry ==
    /\ IsPrefix(StepsRun, StepsOf(last.handler))
    /\ last.outcome = "returned" => StepsRun = StepsOf(last.handler)
    /\ \A i \in 1..Len(last.calls) :
           ~last.calls[i].ok
               => /\ i = Len(last.calls)
                  /\ last.outcome = "thrown"
                  /\ last.error \in {"RequestError", "RPError", "TypeError"}
                  /\ last.response = NoResponse

\* A token exchange that failed: no token is minted after it.
C17_Witness ==
    /\ last.handler = "callback" /\ last.outcome = "thrown"
    /\ Len(last.calls) = 3
    /\ last.calls[3].op = "callback" /\ ~last.calls[3].ok
    /\ last.error = "RPError"

\* The last invocation ended as the result r does.
SameResult(r) ==
    /\ r.outcome = last.outcome
    /\ r.error = last.error
    /\ r.calls = last.calls
    /\ r.response = last.response

CallbackOfLastLogin ==
    /\ last.handler = "login" /\ last.outcome = "returned"
    /\ last'.handler = "callback" /\ last'.outcome = "returned"
    /\ \E i \in 1..Len(last'.event.cookie) :
           /\ last'.event.cookie[i].name = CROSSID_LOGIN_COOKIE_NAME
           /\ last'.event.cookie[i].value = last.response.SetCookie[1].value

RedirectsToReferer ==
    CallbackOfLastLogin =>
        last'.response.Location =
            (IF last.event.referer = Undefined \/ last.event.referer = <<>>
                THEN S_slash ELSE last.event.referer)

\* C19: a valid callback that carries the correlation cookie of a login
\* made with Referer R redirects to R, or to "/" when the login had no
\* Referer, and to no other route.
C19_RedirectsToLoginReferer == [][RedirectsToReferer]_vars

\* Two login attempts, one from "/a" and one with no Referer; the callback
\* of the one with no Referer went to "/".
C19_Witness ==
    /\ last.handler = "callback" /\ last.outcome = "returned"
    /\ last.response.Location = S_slash
    /\ \E r \in issued :
           /\ r.state # RequestState
           /\ Prop(decodeState(r.state).obj, S_route) = <<47, 97>>

=============================================================================
